---- MODULE Spec2Model ----
(***************************************************************************)
(* Model of @umituz/react-native-design-system-typography:                 *)
(*   - getTextStyle / clearTypographyCache   (textStyleUtils.ts)           *)
(*   - getTextColor / clearColorCache        (textColorUtils.ts, cached)   *)
(*   - the colour-format validators          (colorValidationUtils.ts)     *)
(*                                                                         *)
(* JavaScript values are represented as follows.                           *)
(*   objects     TLA+ functions from property names to values              *)
(*   null        the record NULL, undefined: the record UNDEFINED          *)
(*   TextStyle   the record [fontSize |-> n, fontWeight |-> s]             *)
(*   strings     TLA+ strings where they are opaque (variant names, token  *)
(*               colours), with undefined as the string UndefinedString;   *)
(*               sequences of one-character strings where the code looks   *)
(*               inside them (the colour validators)                       *)
(***************************************************************************)
EXTENDS Integers, Sequences, FiniteSets, TLC

VARIABLES
    styleSignals,      \* history: what the getTextStyle calls since the last
                       \* clearTypographyCache were asked (see Signals)
    tablesUsed,        \* history: the tables passed to the resolver calls
                       \* since the last clear of their cache (see SpecMemo)
    typographyCache,   \* textStyleUtils.ts: const typographyCache = new Map()
    colorCache,        \* textColorUtils.ts: const colorCache = new Map()
    call,              \* the last call made by a caller and its outcome
    colorText          \* the colour string a caller holds and normalizes

vars ==
    <<styleSignals, tablesUsed, typographyCache, colorCache, call, colorText>>

-----------------------------------------------------------------------------
(* Bounds of the exploration *)

\* Caches of at most this many entries are explored: a resolver call that
\* would add one more is not taken.
MaxCacheSize == 1

-----------------------------------------------------------------------------
(* JavaScript values *)

NULL == [type |-> "null"]
UNDEFINED == [type |-> "undefined"]

\* !x for the values tokens, tokens.typography and tokens.colors can take
Falsy(x) == x = NULL \/ x = UNDEFINED

\* Names every plain object inherits from Object.prototype.
ObjectPrototypeKeys ==
    {"constructor", "hasOwnProperty", "isPrototypeOf", "propertyIsEnumerable",
     "toLocaleString", "toString", "valueOf"}

InheritedFunction(key) == [type |-> "function", name |-> key]

\* obj[key] on a plain object: own property, else inherited, else undefined.
Get(obj, key) ==
    IF key \in DOMAIN obj THEN obj[key]
    ELSE IF key \in ObjectPrototypeKeys THEN InheritedFunction(key)
    ELSE UNDEFINED

\* Object.keys(obj).length
KeyCount(obj) == Cardinality(DOMAIN obj)

\* new Map()
EmptyMap == << >>

-----------------------------------------------------------------------------
(* Typography: textStyleUtils.ts *)

TextStyle(size, weight) == [fontSize |-> size, fontWeight |-> weight]

IsTextStyle(x) ==
    /\ DOMAIN x = {"fontSize", "fontWeight"}
    /\ x.fontSize \in Int
    /\ x.fontWeight \in STRING

getAllTextStyleVariants ==
    << "displayLarge", "displayMedium", "displaySmall",
       "headlineLarge", "headlineMedium", "headlineSmall",
       "titleLarge", "titleMedium", "titleSmall",
       "bodyLarge", "bodyMedium", "bodySmall",
       "labelLarge", "labelMedium", "labelSmall" >>

TEXT_STYLE_VARIANT_SET ==
    {"displayLarge", "displayMedium", "displaySmall",
     "headlineLarge", "headlineMedium", "headlineSmall",
     "titleLarge", "titleMedium", "titleSmall",
     "bodyLarge", "bodyMedium", "bodySmall",
     "labelLarge", "labelMedium", "labelSmall"}

\* isTextStyleVariant as a property lookup in a plain object
isTextStyleVariant_ObjectLookup(value) ==
    value \in TEXT_STYLE_VARIANT_SET \cup ObjectPrototypeKeys

isTextStyleVariant(value) == value \in TEXT_STYLE_VARIANT_SET

TypographyError == "Invalid design tokens: tokens and tokens.typography are required"
ColorsError == "Invalid design tokens: tokens and tokens.colors are required"

\* Faulty variants of the mapper: one ignores the variant, one has no fallback.
MaterialTypographyMapper_getStyle_IgnoresVariant(variant, tokens) ==
    Get(tokens.typography, "bodyLarge")

MaterialTypographyMapper_getStyle_NoFallback(variant, tokens) ==
    Get(tokens.typography, variant)

\* tokens.typography[variant] || tokens.typography.bodyLarge
\* (an object, own or inherited, is truthy; only undefined falls through)
MaterialTypographyMapper_getStyle(variant, tokens) ==
    LET found == Get(tokens.typography, variant)
    IN  IF found # UNDEFINED THEN found
        ELSE Get(tokens.typography, "bodyLarge")

BodyLargeFontSizeOr16_Nullish(tokens) ==
    LET body == Get(tokens.typography, "bodyLarge")
    IN  IF body = UNDEFINED THEN 16 ELSE body.fontSize

\* tokens.typography.bodyLarge?.fontSize || 16
BodyLargeFontSizeOr16(tokens) ==
    LET body == Get(tokens.typography, "bodyLarge")
    IN  IF body = UNDEFINED THEN 16
        ELSE IF body.fontSize = 0 THEN 16
        ELSE body.fontSize

\* `${variant}_${Object.keys(tokens.typography).length}_${... || 16}`
\* The text is split unambiguously from the right (the two numbers contain no
\* underscore), so the key is the triple of its parts.
TypographyCacheKey_NoVariant(variant, tokens) ==
    <<"", KeyCount(tokens.typography), BodyLargeFontSizeOr16(tokens)>>

TypographyCacheKey_VariantOnly(variant, tokens) == <<variant, 0, 0>>

TypographyCacheKey(variant, tokens) ==
    <<variant, KeyCount(tokens.typography), BodyLargeFontSizeOr16(tokens)>>

\* What one resolver call does: how it ends, the value it returns (or the
\* message of the Error it throws), whether the value came out of the cache,
\* and the cache it leaves.
Return(value, cached, cache) ==
    [outcome |-> "return", value |-> value, cached |-> cached, cache |-> cache]

Throw(message, cache) ==
    [outcome |-> "throw", value |-> message, cached |-> FALSE, cache |-> cache]

getTextStyle_Overwrites(cache, variant, tokens) ==
    IF Falsy(tokens) \/ Falsy(Get(tokens, "typography"))
    THEN Throw(TypographyError, cache)
    ELSE LET cacheKey == TypographyCacheKey(variant, tokens)
             resolvedStyle ==
                 MaterialTypographyMapper_getStyle(variant, tokens)
         IN  IF cacheKey \in DOMAIN cache
             THEN Return(cache[cacheKey], TRUE,
                         [cache EXCEPT ![cacheKey] = resolvedStyle])
             ELSE Return(resolvedStyle, FALSE,
                         cache @@ (cacheKey :> resolvedStyle))

getTextStyle(cache, variant, tokens) ==
    IF Falsy(tokens) \/ Falsy(Get(tokens, "typography"))
    THEN Throw(TypographyError, cache)
    ELSE LET cacheKey == TypographyCacheKey(variant, tokens)
         IN  IF cacheKey \in DOMAIN cache
             THEN Return(cache[cacheKey], TRUE, cache)
             ELSE LET resolvedStyle ==
                          MaterialTypographyMapper_getStyle(variant, tokens)
                  IN  Return(resolvedStyle, FALSE,
                             cache @@ (cacheKey :> resolvedStyle))

\* The record of a call: the operation, its arguments, the tokens object as
\* the call leaves it, and its outcome.
Called(op, arg, tokens, tokensAfter, r) ==
    [op |-> op, arg |-> arg, tokens |-> tokens, tokensAfter |-> tokensAfter,
     outcome |-> r.outcome, cached |-> r.cached, value |-> r.value]

NoCall ==
    [op |-> "none", arg |-> "", tokens |-> NULL, tokensAfter |-> NULL,
     outcome |-> "none", cached |-> FALSE, value |-> ""]

\* getTextStyle with a mapper that stores the fallback in the table:
\* tokens.typography[variant] ||= tokens.typography.bodyLarge
getTextStyle_tokens_StoresFallback(variant, tokens) ==
    IF Falsy(tokens) \/ Falsy(Get(tokens, "typography")) THEN tokens
    ELSE IF /\ Get(tokens.typography, variant) = UNDEFINED
            /\ "bodyLarge" \in DOMAIN tokens.typography
    THEN [tokens EXCEPT
            !.typography = (variant :> tokens.typography.bodyLarge) @@ @]
    ELSE tokens

\* The tokens object after getTextStyle(variant, tokens): getTextStyle and
\* MaterialTypographyMapper.getStyle read tokens and tokens.typography and
\* assign to neither.
getTextStyle_tokens(variant, tokens) == tokens

\* A caller runs getTextStyle(variant, tokens).
GetTextStyleStep(variant, tokens) ==
    LET r == getTextStyle(typographyCache, variant, tokens)
    IN  /\ Cardinality(DOMAIN r.cache) <= MaxCacheSize
        /\ typographyCache' = r.cache
        /\ call' = Called("getTextStyle", variant, tokens,
                          getTextStyle_tokens(variant, tokens), r)
        /\ UNCHANGED <<colorCache, colorText>>

\* clearTypographyCache over one cache shared by the two resolvers
clearTypographyCache_ClearsBoth ==
    /\ typographyCache' = EmptyMap
    /\ colorCache' = EmptyMap
    /\ call' = [NoCall EXCEPT !.op = "clearTypographyCache",
                              !.outcome = "return"]
    /\ UNCHANGED colorText

\* clearTypographyCache that leaves the entries in place
clearTypographyCache_KeepsEntries ==
    /\ typographyCache' = typographyCache
    /\ call' = [NoCall EXCEPT !.op = "clearTypographyCache",
                              !.outcome = "return"]
    /\ UNCHANGED <<colorCache, colorText>>

clearTypographyCache ==
    /\ typographyCache' = EmptyMap
    /\ call' = [NoCall EXCEPT !.op = "clearTypographyCache",
                              !.outcome = "return"]
    /\ UNCHANGED <<colorCache, colorText>>

\* A caller runs getAllTextStyleVariants().
GetAllTextStyleVariantsStep ==
    /\ call' = [NoCall EXCEPT !.op = "getAllTextStyleVariants",
                              !.outcome = "return",
                              !.value = getAllTextStyleVariants]
    /\ UNCHANGED <<typographyCache, colorCache, colorText, styleSignals,
                   tablesUsed>>

\* A caller runs isTextStyleVariant(value).
IsTextStyleVariantStep(value) ==
    /\ call' = [NoCall EXCEPT !.op = "isTextStyleVariant", !.arg = value,
                              !.outcome = "return",
                              !.value = isTextStyleVariant(value)]
    /\ UNCHANGED <<typographyCache, colorCache, colorText, styleSignals,
                   tablesUsed>>

-----------------------------------------------------------------------------
(* Colours: textColorUtils.ts (the memoizing version) *)

\* undefined where the other values are strings (a color argument, a token
\* colour).  No string a caller passes is this text.
UndefinedString == "<undefined>"

\* `${x}` for a string or undefined
TemplateText(x) == IF x = UndefinedString THEN "undefined" ELSE x

\* tokens.colors.<field>
ColorField(tokens, field) ==
    IF field \in DOMAIN tokens.colors THEN tokens.colors[field]
    ELSE UndefinedString

COLOR_VARIANT_SET_WithBackground ==
    {"textPrimary", "textSecondary", "textTertiary", "textDisabled",
     "textInverse", "onSurface", "onBackground", "onPrimary", "onSecondary",
     "onSuccess", "onError", "onWarning", "onInfo", "success", "error",
     "warning", "info", "primary", "secondary", "tertiary", "disabled",
     "inverse", "surfaceVariant", "background"}

COLOR_VARIANT_SET ==
    {"textPrimary", "textSecondary", "textTertiary", "textDisabled",
     "textInverse", "onSurface", "onBackground", "onPrimary", "onSecondary",
     "onSuccess", "onError", "onWarning", "onInfo", "success", "error",
     "warning", "info", "primary", "secondary", "tertiary", "disabled",
     "inverse", "surfaceVariant"}

isColorVariant(value) == value \in COLOR_VARIANT_SET

\* The switch of MaterialColorMapper.getColor: the token field each case reads.
\* (The faulty variants route a legacy alias to the token of its own name.)
MaterialColorMapper_field_AliasOwnToken(color) ==
    IF color \in COLOR_VARIANT_SET THEN color ELSE "textPrimary"

MaterialColorMapper_field_SurfaceVariantOwnToken(color) ==
    CASE color = "primary"        -> "textPrimary"
      [] color = "secondary"      -> "textSecondary"
      [] color = "tertiary"       -> "textTertiary"
      [] color = "disabled"       -> "textDisabled"
      [] color = "inverse"        -> "textInverse"
      [] color \in COLOR_VARIANT_SET
         \ {"primary", "secondary", "tertiary", "disabled", "inverse"} -> color
      [] OTHER                    -> "textPrimary"

MaterialColorMapper_field(color) ==
    CASE color = "textPrimary"    -> "textPrimary"
      [] color = "textSecondary"  -> "textSecondary"
      [] color = "textTertiary"   -> "textTertiary"
      [] color = "textDisabled"   -> "textDisabled"
      [] color = "textInverse"    -> "textInverse"
      [] color = "onSurface"      -> "onSurface"
      [] color = "onBackground"   -> "onBackground"
      [] color = "onPrimary"      -> "onPrimary"
      [] color = "onSecondary"    -> "onSecondary"
      [] color = "onSuccess"      -> "onSuccess"
      [] color = "onError"        -> "onError"
      [] color = "onWarning"      -> "onWarning"
      [] color = "onInfo"         -> "onInfo"
      [] color = "success"        -> "success"
      [] color = "error"          -> "error"
      [] color = "warning"        -> "warning"
      [] color = "info"           -> "info"
      [] color = "primary"        -> "textPrimary"
      [] color = "secondary"      -> "textSecondary"
      [] color = "tertiary"       -> "textTertiary"
      [] color = "disabled"       -> "textDisabled"
      [] color = "inverse"        -> "textInverse"
      [] color = "surfaceVariant" -> "textSecondary"
      [] OTHER                    -> "textPrimary"

MaterialColorMapper_getColor(color, tokens) ==
    ColorField(tokens, MaterialColorMapper_field(color))

\* `${color}_${Object.keys(tokens.colors).length}_${tokens.colors.textPrimary}`
\* color is a ColorVariant here (no underscore) and the count is digits, so
\* the text is split unambiguously from the left: the key is the triple.
ColorCacheKey(color, tokens) ==
    <<color, KeyCount(tokens.colors),
      TemplateText(ColorField(tokens, "textPrimary"))>>

\* Faulty variants of getTextColor: without the `!color` default, without the
\* pass-through of literal colours, and with the pass-through tested before
\* the tokens are validated.
getTextColor_NoDefault(cache, color, tokens) ==
    IF Falsy(tokens) \/ Falsy(Get(tokens, "colors"))
    THEN Throw(ColorsError, cache)
    ELSE IF ~isColorVariant(color)
    THEN Return(color, FALSE, cache)
    ELSE LET cacheKey == ColorCacheKey(color, tokens)
         IN  IF cacheKey \in DOMAIN cache
             THEN Return(cache[cacheKey], TRUE, cache)
             ELSE LET resolvedColor ==
                          MaterialColorMapper_getColor(color, tokens)
                  IN  Return(resolvedColor, FALSE,
                             cache @@ (cacheKey :> resolvedColor))

getTextColor_NoPassThrough(cache, color, tokens) ==
    IF Falsy(tokens) \/ Falsy(Get(tokens, "colors"))
    THEN Throw(ColorsError, cache)
    ELSE IF color = UndefinedString \/ color = ""
    THEN Return(ColorField(tokens, "textPrimary"), FALSE, cache)
    ELSE LET cacheKey == ColorCacheKey(color, tokens)
         IN  IF cacheKey \in DOMAIN cache
             THEN Return(cache[cacheKey], TRUE, cache)
             ELSE LET resolvedColor ==
                          MaterialColorMapper_getColor(color, tokens)
                  IN  Return(resolvedColor, FALSE,
                             cache @@ (cacheKey :> resolvedColor))

getTextColor_PassThroughFirst(cache, color, tokens) ==
    IF color # UndefinedString /\ color # "" /\ ~isColorVariant(color)
    THEN Return(color, FALSE, cache)
    ELSE IF Falsy(tokens) \/ Falsy(Get(tokens, "colors"))
    THEN Throw(ColorsError, cache)
    ELSE IF color = UndefinedString \/ color = ""
    THEN Return(ColorField(tokens, "textPrimary"), FALSE, cache)
    ELSE LET cacheKey == ColorCacheKey(color, tokens)
         IN  IF cacheKey \in DOMAIN cache
             THEN Return(cache[cacheKey], TRUE, cache)
             ELSE LET resolvedColor ==
                          MaterialColorMapper_getColor(color, tokens)
                  IN  Return(resolvedColor, FALSE,
                             cache @@ (cacheKey :> resolvedColor))

getTextColor(cache, color, tokens) ==
    IF Falsy(tokens) \/ Falsy(Get(tokens, "colors"))
    THEN Throw(ColorsError, cache)
    ELSE IF color = UndefinedString \/ color = ""
    THEN Return(ColorField(tokens, "textPrimary"), FALSE, cache)
    ELSE IF ~isColorVariant(color)
    THEN Return(color, FALSE, cache)
    ELSE LET cacheKey == ColorCacheKey(color, tokens)
         IN  IF cacheKey \in DOMAIN cache
             THEN Return(cache[cacheKey], TRUE, cache)
             ELSE LET resolvedColor ==
                          MaterialColorMapper_getColor(color, tokens)
                  IN  Return(resolvedColor, FALSE,
                             cache @@ (cacheKey :> resolvedColor))

\* The case labels of the switch in MaterialColorMapper.getColor; any other
\* string is handled by its default branch.
MaterialColorMapper_cases ==
    {"textPrimary", "textSecondary", "textTertiary", "textDisabled",
     "textInverse", "onSurface", "onBackground", "onPrimary", "onSecondary",
     "onSuccess", "onError", "onWarning", "onInfo", "success", "error",
     "warning", "info", "primary", "secondary", "tertiary", "disabled",
     "inverse", "surfaceVariant"}

\* What MaterialColorMapper.getColor gives console.warn: one line in the
\* default branch, unless process.env.NODE_ENV is 'production'.
MaterialColorMapper_getColor_warnings(color, production) ==
    IF color \in MaterialColorMapper_cases \/ production
    THEN {}
    ELSE {"Unknown color variant: " \o color}

\* The tokens object after getTextColor(color, tokens): getTextColor and
\* MaterialColorMapper.getColor read tokens and tokens.colors and assign to
\* neither.
getTextColor_tokens(color, tokens) == tokens

\* A caller runs getTextColor(color, tokens).
GetTextColorStep(color, tokens) ==
    LET r == getTextColor(colorCache, color, tokens)
    IN  /\ Cardinality(DOMAIN r.cache) <= MaxCacheSize
        /\ colorCache' = r.cache
        /\ call' = Called("getTextColor", color, tokens,
                          getTextColor_tokens(color, tokens), r)
        /\ UNCHANGED <<typographyCache, colorText, styleSignals>>

clearColorCache ==
    /\ colorCache' = EmptyMap
    /\ call' = [NoCall EXCEPT !.op = "clearColorCache", !.outcome = "return"]
    /\ UNCHANGED <<typographyCache, colorText, styleSignals>>

-----------------------------------------------------------------------------
(* Colour strings: colorValidationUtils.ts *)
(* A string is a sequence of one-character strings.                        *)

Digits == {"0", "1", "2", "3", "4", "5", "6", "7", "8", "9"}

LowerCaseLetters ==
    << "a", "b", "c", "d", "e", "f", "g", "h", "i", "j", "k", "l", "m",
       "n", "o", "p", "q", "r", "s", "t", "u", "v", "w", "x", "y", "z" >>

UpperCaseLetters ==
    << "A", "B", "C", "D", "E", "F", "G", "H", "I", "J", "K", "L", "M",
       "N", "O", "P", "Q", "R", "S", "T", "U", "V", "W", "X", "Y", "Z" >>

Range(f) == {f[k] : k \in DOMAIN f}

\* [A-Fa-f0-9]
HexChars ==
    Digits \cup {"a", "b", "c", "d", "e", "f"} \cup {"A", "B", "C", "D", "E", "F"}

\* \s (the white space characters that can be typed in ASCII)
WhiteSpace == {" ", "\t", "\n", "\r", "\f"}

CharToLowerCase(ch) ==
    IF ch \in Range(UpperCaseLetters)
    THEN LowerCaseLetters[CHOOSE k \in DOMAIN UpperCaseLetters :
                              UpperCaseLetters[k] = ch]
    ELSE ch

CharToUpperCase(ch) ==
    IF ch \in Range(LowerCaseLetters)
    THEN UpperCaseLetters[CHOOSE k \in DOMAIN LowerCaseLetters :
                              LowerCaseLetters[k] = ch]
    ELSE ch

\* String.prototype.toLowerCase
toLowerCase(str) == [k \in DOMAIN str |-> CharToLowerCase(str[k])]

(* Regular expressions, as syntax trees *)

\* one character of a class
Chr(chars) == [node |-> "chr", chars |-> chars]
\* r1 r2 ... rn
Cat(parts) == [node |-> "cat", parts |-> parts]
\* r1 | r2 | ... | rn
Alt(parts) == [node |-> "alt", parts |-> parts]
\* r{min,max}
Rep(re, min, max) == [node |-> "rep", re |-> re, min |-> min, max |-> max]
\* r*
Star(re) == [node |-> "star", re |-> re]
\* r?
Opt(re) == Rep(re, 0, 1)
\* the characters of a word, one after the other
Lit(word) == Cat([k \in DOMAIN word |-> Chr({word[k]})])
\* the same under the i flag
LitIgnoreCase(word) ==
    Cat([k \in DOMAIN word |->
            Chr({CharToLowerCase(word[k]), CharToUpperCase(word[k])})])

RECURSIVE Ends(_, _, _)
RECURSIVE CatEnds(_, _, _, _)
RECURSIVE RepEnds(_, _, _, _, _, _)
RECURSIVE StarEnds(_, _, _, _)

\* Every position at which a match of re that starts at one of from can end.
EndsFrom(re, str, from) == UNION {Ends(re, str, i) : i \in from}

\* Every position (index of the next character) at which a match of re that
\* starts at position i of str can end.
Ends(re, str, i) ==
    CASE re.node = "chr" ->
           IF i <= Len(str) /\ str[i] \in re.chars THEN {i + 1} ELSE {}
      [] re.node = "cat" -> CatEnds(re.parts, 1, str, {i})
      [] re.node = "alt" ->
           UNION {Ends(re.parts[k], str, i) : k \in DOMAIN re.parts}
      [] re.node = "rep" -> RepEnds(re.re, re.min, re.max, str, {i}, 0)
      [] re.node = "star" -> StarEnds(re.re, str, {i}, {i})

CatEnds(parts, k, str, from) ==
    IF k > Len(parts) THEN from
    ELSE CatEnds(parts, k + 1, str, EndsFrom(parts[k], str, from))

\* from: the positions reached after n repetitions
RepEnds(re, min, max, str, from, n) ==
    IF from = {} THEN {}
    ELSE (IF n >= min THEN from ELSE {})
         \cup (IF n = max THEN {}
               ELSE RepEnds(re, min, max, str, EndsFrom(re, str, from), n + 1))

\* seen: every position reached so far; from: those reached last
StarEnds(re, str, from, seen) ==
    LET next == EndsFrom(re, str, from) \ seen
    IN  IF next = {} THEN seen
        ELSE StarEnds(re, str, next, seen \cup next)

\* RegExp.prototype.test for a pattern anchored with ^ and $
Test(re, str) == (Len(str) + 1) \in Ends(re, str, 1)

\* \s*
Spaces == Star(Chr(WhiteSpace))

\* (\d{1,3}%?)
RgbChannel == Cat(<<Rep(Chr(Digits), 1, 3), Opt(Chr({"%"}))>>)

\* (\d{1,3}%)
Percentage == Cat(<<Rep(Chr(Digits), 1, 3), Chr({"%"})>>)

\* (?:,\s*([01]?\.?\d*)\s*)?
OptionalAlpha ==
    Opt(Cat(<<Chr({","}), Spaces,
              Opt(Chr({"0", "1"})), Opt(Chr({"."})), Star(Chr(Digits)),
              Spaces>>))

\* /^#([A-Fa-f0-9]{3}|[A-Fa-f0-9]{6})$/
COLOR_PATTERNS_hex ==
    Cat(<<Chr({"#"}),
          Alt(<<Rep(Chr(HexChars), 3, 3), Rep(Chr(HexChars), 6, 6)>>)>>)

\* /^rgba?\(\s*(\d{1,3}%?)\s*,\s*(\d{1,3}%?)\s*,\s*(\d{1,3}%?)\s*
\*   (?:,\s*([01]?\.?\d*)\s*)?\)$/
COLOR_PATTERNS_rgb ==
    Cat(<<Lit(<<"r", "g", "b">>), Opt(Chr({"a"})), Chr({"("}),
          Spaces, RgbChannel, Spaces, Chr({","}),
          Spaces, RgbChannel, Spaces, Chr({","}),
          Spaces, RgbChannel, Spaces,
          OptionalAlpha, Chr({")"})>>)

\* /^hsla?\(\s*(\d{1,3})\s*,\s*(\d{1,3}%)\s*,\s*(\d{1,3}%)\s*
\*   (?:,\s*([01]?\.?\d*)\s*)?\)$/
COLOR_PATTERNS_hsl ==
    Cat(<<Lit(<<"h", "s", "l">>), Opt(Chr({"a"})), Chr({"("}),
          Spaces, Rep(Chr(Digits), 1, 3), Spaces, Chr({","}),
          Spaces, Percentage, Spaces, Chr({","}),
          Spaces, Percentage, Spaces,
          OptionalAlpha, Chr({")"})>>)

NamedColors ==
    << <<"r", "e", "d">>, <<"b", "l", "u", "e">>,
       <<"g", "r", "e", "e", "n">>, <<"y", "e", "l", "l", "o", "w">>,
       <<"o", "r", "a", "n", "g", "e">>, <<"p", "u", "r", "p", "l", "e">>,
       <<"p", "i", "n", "k">>, <<"b", "r", "o", "w", "n">>,
       <<"b", "l", "a", "c", "k">>, <<"w", "h", "i", "t", "e">>,
       <<"g", "r", "a", "y">>, <<"g", "r", "e", "y">>,
       <<"t", "r", "a", "n", "s", "p", "a", "r", "e", "n", "t">>,
       <<"i", "n", "h", "e", "r", "i", "t">>,
       <<"i", "n", "i", "t", "i", "a", "l">>, <<"u", "n", "s", "e", "t">>,
       <<"c", "u", "r", "r", "e", "n", "t", "c", "o", "l", "o", "r">> >>

\* /^(red|blue|...|currentcolor)$/i
COLOR_PATTERNS_named ==
    Alt([k \in DOMAIN NamedColors |-> LitIgnoreCase(NamedColors[k])])

\* Number(text) for a run of decimal digits
RECURSIVE Number(_)
Number(text) ==
    IF text = << >> THEN 0
    ELSE LET last == text[Len(text)]
             digit == CHOOSE d \in 0..9 : ToString(d) = last
         IN  10 * Number(SubSeq(text, 1, Len(text) - 1)) + digit

\* color.match(/\d+/g): the maximal runs of digits, from left to right
RECURSIVE DigitRuns(_, _, _)
DigitRuns(str, i, run) ==
    IF i > Len(str) THEN (IF run = << >> THEN << >> ELSE <<run>>)
    ELSE IF str[i] \in Digits THEN DigitRuns(str, i + 1, Append(run, str[i]))
    ELSE IF run = << >> THEN DigitRuns(str, i + 1, << >>)
    ELSE <<run>> \o DigitRuns(str, i + 1, << >>)

MatchDigits(str) == DigitRuns(str, 1, << >>)

isValidHexColor(color) == Test(COLOR_PATTERNS_hex, color)

\* isValidRgbColor without the re-check of the numbers
isValidRgbColor_PatternOnly(color) == Test(COLOR_PATTERNS_rgb, color)

\* isValidRgbColor that re-checks the numbers of bare integers only
isValidRgbColor_PercentExempt(color) ==
    IF ~Test(COLOR_PATTERNS_rgb, color) THEN FALSE
    ELSE LET match == MatchDigits(color)
         IN  IF Len(match) < 3 THEN FALSE
             ELSE LET r == Number(match[1])
                      g == Number(match[2])
                      b == Number(match[3])
                  IN  \/ "%" \in Range(color)
                      \/ r >= 0 /\ r <= 255 /\ g >= 0 /\ g <= 255
                         /\ b >= 0 /\ b <= 255

isValidRgbColor(color) ==
    IF ~Test(COLOR_PATTERNS_rgb, color) THEN FALSE
    ELSE LET match == MatchDigits(color)
         IN  IF Len(match) < 3 THEN FALSE
             ELSE LET r == Number(match[1])
                      g == Number(match[2])
                      b == Number(match[3])
                  IN  r >= 0 /\ r <= 255 /\ g >= 0 /\ g <= 255
                      /\ b >= 0 /\ b <= 255

\* isValidHslColor without the re-check of the numbers
isValidHslColor_PatternOnly(color) == Test(COLOR_PATTERNS_hsl, color)

isValidHslColor(color) ==
    IF ~Test(COLOR_PATTERNS_hsl, color) THEN FALSE
    ELSE LET match == MatchDigits(color)
         IN  IF Len(match) < 3 THEN FALSE
             ELSE LET h == Number(match[1])
                      sat == Number(match[2])
                      l == Number(match[3])
                  IN  h >= 0 /\ h <= 360 /\ sat >= 0 /\ sat <= 100
                      /\ l >= 0 /\ l <= 100

isValidNamedColor(color) == Test(COLOR_PATTERNS_named, color)

isValidColor(color) ==
    \/ isValidHexColor(color)
    \/ isValidRgbColor(color)
    \/ isValidHslColor(color)
    \/ isValidNamedColor(color)

\* getColorFormat without its hsl line
getColorFormat_NoHsl(color) ==
    IF isValidHexColor(color) THEN "hex"
    ELSE IF isValidRgbColor(color) THEN "rgb"
    ELSE IF isValidNamedColor(color) THEN "named"
    ELSE "unknown"

getColorFormat(color) ==
    IF isValidHexColor(color) THEN "hex"
    ELSE IF isValidRgbColor(color) THEN "rgb"
    ELSE IF isValidHslColor(color) THEN "hsl"
    ELSE IF isValidNamedColor(color) THEN "named"
    ELSE "unknown"

\* normalizeColor that lower-cases before it validates
normalizeColor_LowerCaseFirst(color) ==
    LET lower == toLowerCase(color)
    IN  IF ~isValidColor(lower) THEN lower
        ELSE IF isValidHexColor(lower) /\ Len(lower) = 4
        THEN <<"#", lower[2], lower[2], lower[3], lower[3], lower[4], lower[4]>>
        ELSE lower

normalizeColor(color) ==
    IF ~isValidColor(color) THEN color
    ELSE IF isValidHexColor(color) /\ Len(color) = 4
    THEN LET r == color[2]
             g == color[3]
             b == color[4]
         IN  <<"#", r, r, g, g, b, b>>
    ELSE toLowerCase(color)

-----------------------------------------------------------------------------
(* Token tables the callers pass *)

\* createMockDesignTokens (theme.d.ts) / mockTokens of the tests
DefaultTypography ==
    [displayLarge   |-> TextStyle(57, "400"),
     displayMedium  |-> TextStyle(45, "400"),
     displaySmall   |-> TextStyle(36, "400"),
     headlineLarge  |-> TextStyle(32, "400"),
     headlineMedium |-> TextStyle(28, "400"),
     headlineSmall  |-> TextStyle(24, "400"),
     titleLarge     |-> TextStyle(22, "500"),
     titleMedium    |-> TextStyle(16, "500"),
     titleSmall     |-> TextStyle(14, "500"),
     bodyLarge      |-> TextStyle(16, "400"),
     bodyMedium     |-> TextStyle(14, "400"),
     bodySmall      |-> TextStyle(12, "400"),
     labelLarge     |-> TextStyle(14, "500"),
     labelMedium    |-> TextStyle(12, "500"),
     labelSmall     |-> TextStyle(11, "500")]

\* Same entries and same bodyLarge.fontSize as the default, other weights.
HeavyTypography ==
    [v \in DOMAIN DefaultTypography |->
        TextStyle(DefaultTypography[v].fontSize, "700")]

\* Every size two points smaller: another bodyLarge.fontSize.
CompactTypography ==
    [v \in DOMAIN DefaultTypography |->
        TextStyle(DefaultTypography[v].fontSize - 2,
                  DefaultTypography[v].fontWeight)]

\* Fifteen entries, none of them bodyLarge.
NoBodyLargeTypography ==
    [v \in (DOMAIN DefaultTypography \ {"bodyLarge"}) \cup {"caption"} |->
        IF v = "caption" THEN TextStyle(12, "400") ELSE DefaultTypography[v]]

TypographyTables ==
    {DefaultTypography, HeavyTypography, CompactTypography,
     NoBodyLargeTypography}

\* createMockDesignTokens (theme.d.ts) / mockTokens of the tests
DefaultColors ==
    [textPrimary    |-> "#000000", textSecondary |-> "#666666",
     textTertiary   |-> "#999999", textDisabled  |-> "#CCCCCC",
     textInverse    |-> "#FFFFFF", onSurface     |-> "#000000",
     onBackground   |-> "#000000", onPrimary     |-> "#FFFFFF",
     onSecondary    |-> "#FFFFFF", onSuccess     |-> "#FFFFFF",
     onError        |-> "#FFFFFF", onWarning     |-> "#000000",
     onInfo         |-> "#FFFFFF", success       |-> "#4CAF50",
     error          |-> "#F44336", warning       |-> "#FF9800",
     info           |-> "#2196F3", primary       |-> "#2196F3",
     secondary      |-> "#FF9800", tertiary      |-> "#9C27B0",
     surface        |-> "#FFFFFF", surfaceVariant |-> "#F5F5F5",
     background     |-> "#FFFFFF"]

\* As many colours and the same textPrimary as the default; every field has
\* a value of its own.
AltColors ==
    [textPrimary    |-> "#000000", textSecondary |-> "#100001",
     textTertiary   |-> "#100002", textDisabled  |-> "#100003",
     textInverse    |-> "#100004", onSurface     |-> "#100005",
     onBackground   |-> "#100006", onPrimary     |-> "#100007",
     onSecondary    |-> "#100008", onSuccess     |-> "#100009",
     onError        |-> "#10000A", onWarning     |-> "#10000B",
     onInfo         |-> "#10000C", success       |-> "#10000D",
     error          |-> "#10000E", warning       |-> "#10000F",
     info           |-> "#100010", primary       |-> "#100011",
     secondary      |-> "#100012", tertiary      |-> "#100013",
     surface        |-> "#100014", surfaceVariant |-> "#100015",
     background     |-> "#100016"]

\* A table that defines two colours only.
PartialColors == [textPrimary |-> "#200000", textSecondary |-> "#200001"]

ColorTables == {DefaultColors, AltColors}

Tokens(colors, typography) == [colors |-> colors, typography |-> typography]

\* getTextStyle('bodyLarge', null / undefined / { typography: null } / {})
BadTypographyTokens == {NULL, UNDEFINED, [typography |-> NULL], << >>}

\* getTextColor('textPrimary', null / undefined / { colors: null } / {})
BadColorTokens == {NULL, UNDEFINED, [colors |-> NULL], << >>}

\* Token objects that carry the one table the resolver under test reads.
StyleTokenInputs ==
    {[typography |-> t] : t \in TypographyTables} \cup BadTypographyTokens

ColorTokenInputs ==
    {[colors |-> c] : c \in ColorTables} \cup BadColorTokens

\* The 15 variants, a string that is no variant, and a string that names a
\* property every object inherits.
StyleVariantInputs == TEXT_STYLE_VARIANT_SET \cup {"unknownVariant", "toString"}

\* The 23 variants, undefined, '', literal colours, and two strings that are
\* no variant (one of them a key of tokens.colors).
ColorInputs ==
    COLOR_VARIANT_SET \cup
    {UndefinedString, "", "#FF5722", "rgb(255, 0, 0)", "unknownVariant",
     "background"}


-----------------------------------------------------------------------------
(* Specifications *)

\* No call yet since the last clear of either cache.
NoTables == [typography |-> {}, colors |-> {}]

Init ==
    /\ styleSignals = {}
    /\ tablesUsed = NoTables
    /\ typographyCache = EmptyMap
    /\ colorCache = EmptyMap
    /\ call = NoCall
    /\ colorText = << >>

\* The typography resolver alone, over every variant and table.
GetTextStyleCall ==
    \E variant \in StyleVariantInputs, tokens \in StyleTokenInputs :
        GetTextStyleStep(variant, tokens)
        /\ UNCHANGED <<styleSignals, tablesUsed>>

ClearTypographyCacheCall ==
    clearTypographyCache /\ UNCHANGED <<styleSignals, tablesUsed>>

\* The strings of the isTextStyleVariant tests, next to the variants.
VariantTextInputs == StyleVariantInputs \cup {"", "display", "body", "invalid"}

IsTextStyleVariantCall ==
    \E value \in VariantTextInputs : IsTextStyleVariantStep(value)

GetAllTextStyleVariantsCall == GetAllTextStyleVariantsStep

NextStyle ==
    \/ GetTextStyleCall
    \/ ClearTypographyCacheCall
    \/ IsTextStyleVariantCall
    \/ GetAllTextStyleVariantsCall

SpecStyle == Init /\ [][NextStyle]_vars

\* The colour resolver alone, over every variant and table.
GetTextColorCall ==
    \E color \in ColorInputs, tokens \in ColorTokenInputs :
        GetTextColorStep(color, tokens) /\ UNCHANGED tablesUsed

ClearColorCacheCall == clearColorCache /\ UNCHANGED tablesUsed

NextColor == GetTextColorCall \/ ClearColorCacheCall

SpecColor == Init /\ [][NextColor]_vars

\* Both resolvers side by side, as one process uses them: a few variants of
\* each kind, token objects with both tables, with one table, and with none.
SharedStyleInputs == {"bodyLarge", "unknownVariant"}

SharedColorInputs ==
    {"textSecondary", "surfaceVariant", UndefinedString, "", "#FF5722"}

SharedTokenInputs ==
    {Tokens(DefaultColors, DefaultTypography),
     Tokens(AltColors, HeavyTypography),
     Tokens(AltColors, CompactTypography),
     Tokens(PartialColors, NoBodyLargeTypography),
     [colors |-> DefaultColors], [typography |-> DefaultTypography],
     [colors |-> NULL, typography |-> NULL],
     NULL, UNDEFINED}

\* What a getTextStyle call is asked, as far as the cache key looks: the
\* variant, Object.keys(tokens.typography).length and
\* tokens.typography.bodyLarge?.fontSize (undefined without a bodyLarge).
Signals(variant, tokens) ==
    LET body == Get(tokens.typography, "bodyLarge")
    IN  <<variant, KeyCount(tokens.typography),
          IF body = UNDEFINED THEN UNDEFINED ELSE [number |-> body.fontSize]>>

\* This specification keeps the history of the getTextStyle calls that
\* returned since the last clearTypographyCache.
GetTextStyle ==
    \E variant \in SharedStyleInputs, tokens \in SharedTokenInputs :
        /\ GetTextStyleStep(variant, tokens)
        /\ styleSignals' =
              IF call'.outcome = "return"
              THEN styleSignals \cup {Signals(variant, tokens)}
              ELSE styleSignals
        /\ UNCHANGED tablesUsed

GetTextColor ==
    \E color \in SharedColorInputs, tokens \in SharedTokenInputs :
        GetTextColorStep(color, tokens) /\ UNCHANGED tablesUsed

ClearTypographyCache ==
    clearTypographyCache /\ styleSignals' = {} /\ UNCHANGED tablesUsed

ClearColorCache == clearColorCache /\ UNCHANGED tablesUsed

Next == GetTextStyle \/ GetTextColor \/ ClearTypographyCache \/ ClearColorCache

Spec == Init /\ [][Next]_vars

\* Callers that share the two caches and pass tables of their own: three
\* typography tables of 15 entries whose keys agree (bodyLarge.fontSize 16,
\* no bodyLarge, bodyLarge.fontSize 0), two colour tables whose keys agree.
\* This specification keeps the history of the tables passed since the last
\* clear of each cache.
ZeroBodyTypography ==
    [DefaultTypography EXCEPT !.bodyLarge.fontSize = 0]

MemoTypographyTables ==
    {DefaultTypography, NoBodyLargeTypography, ZeroBodyTypography}

MemoStyleInputs == {"bodyLarge", "titleLarge", "unknownVariant"}

MemoColorInputs == {"textSecondary", "surfaceVariant", "#FF5722"}

MemoGetTextStyle ==
    \E variant \in MemoStyleInputs, table \in MemoTypographyTables :
        /\ GetTextStyleStep(variant, [typography |-> table])
        /\ tablesUsed' = [tablesUsed EXCEPT !.typography = @ \cup {table}]
        /\ UNCHANGED styleSignals

MemoGetTextColor ==
    \E color \in MemoColorInputs, table \in ColorTables :
        /\ GetTextColorStep(color, [colors |-> table])
        /\ tablesUsed' = [tablesUsed EXCEPT !.colors = @ \cup {table}]

MemoClearTypographyCache ==
    /\ clearTypographyCache
    /\ tablesUsed' = [tablesUsed EXCEPT !.typography = {}]
    /\ UNCHANGED styleSignals

MemoClearColorCache ==
    /\ clearColorCache
    /\ tablesUsed' = [tablesUsed EXCEPT !.colors = {}]

NextMemo ==
    \/ MemoGetTextStyle
    \/ MemoGetTextColor
    \/ MemoClearTypographyCache
    \/ MemoClearColorCache

SpecMemo == Init /\ [][NextMemo]_vars

\* The colour strings callers validate and normalize.
Strings(chars, n) == {[k \in 1..n |-> f[k]] : f \in [1..n -> chars]}

\* '#' followed by 2 to 6 characters; 'g' is no hex digit.
HexInputs ==
    {<<"#">> \o str :
        str \in Strings({"0", "a", "B", "F", "g"}, 3)
                \cup Strings({"a", "B"}, 6)
                \cup Strings({"a", "B"}, 2)
                \cup Strings({"a", "B"}, 4)
                \cup Strings({"a", "B"}, 5)}

AlphaInputs == {<< >>, <<",", " ", "0", ".", "5">>}

\* Bare integers and percentages, in and out of 0..255.
RgbChannelInputs ==
    {<<"0">>, <<"2", "5", "5">>, <<"2", "5", "6">>, <<"5", "0", "%">>,
     <<"1", "5", "0", "%">>, <<"3", "0", "0", "%">>}

RgbOpenInputs == {<<"r", "g", "b", "(">>, <<"r", "g", "b", "a", "(">>}

\* open c1, c2, c3 alpha )
FunctionText(open, c1, c2, c3, alpha) ==
    open \o c1 \o <<",", " ">> \o c2 \o <<",", " ">> \o c3 \o alpha \o <<")">>

RgbInputs ==
    {FunctionText(open, r, g, b, alpha) :
        open \in RgbOpenInputs \cup {<<"R", "G", "B", "(">>},
        r \in RgbChannelInputs, g \in RgbChannelInputs,
        b \in RgbChannelInputs, alpha \in AlphaInputs}

HslOpenInputs == {<<"h", "s", "l", "(">>, <<"h", "s", "l", "a", "(">>}

HueInputs == {<<"0">>, <<"3", "6", "0">>, <<"3", "6", "1">>}

HslPercentageInputs ==
    {<<"0", "%">>, <<"1", "0", "0", "%">>, <<"1", "0", "1", "%">>}

HslInputs ==
    {FunctionText(open, h, sat, l, alpha) :
        open \in HslOpenInputs \cup {<<"H", "S", "L", "(">>},
        h \in HueInputs,
        sat \in HslPercentageInputs \cup {<<"5", "0">>},
        l \in HslPercentageInputs,
        alpha \in AlphaInputs}

\* red, RED and Red for every colour name
NamedInputs ==
    UNION {{name,
            [k \in DOMAIN name |-> CharToUpperCase(name[k])],
            [k \in DOMAIN name |->
                IF k = 1 THEN CharToUpperCase(name[k]) ELSE name[k]]} :
           name \in Range(NamedColors)}

OtherInputs ==
    {<< >>, <<"i", "n", "v", "a", "l", "i", "d">>,
     <<"r", "e", "d", "-", "b", "l", "u", "e">>,
     <<"f", "f", "f", "f", "f", "f">>,
     <<"2", "5", "5", ",", " ", "0", ",", " ", "0">>,
     <<"r", "g", "b", "(", "2", "5", "5", ",", " ", "0", ")">>,
     <<"r", "g", "b", "(", "2", "5", "5", ",", "0", ",", "0", ")">>,
     <<"r", "g", "b", "(", "2", "5", "6", ",", "0", ",", "0", ")">>,
     <<"r", "g", "b", "(", "2", "5", "5", ",", " ", "-", "1", ",", " ", "0",
       ")">>,
     <<"h", "s", "l", "(", "3", "6", "1", ",", "0", "%", ",", "0", "%", ")">>,
     <<"h", "s", "l", "(", "1", "2", "0", ",", " ", "1", "0", "0", "%", ")">>}

ColorTextInputs ==
    HexInputs \cup RgbInputs \cup HslInputs \cup NamedInputs \cup OtherInputs

InitValidator ==
    /\ styleSignals = {}
    /\ tablesUsed = NoTables
    /\ typographyCache = EmptyMap
    /\ colorCache = EmptyMap
    /\ call = NoCall
    /\ colorText \in ColorTextInputs

\* A caller replaces the string it holds by normalizeColor of it.
NormalizeColor ==
    /\ call' = [NoCall EXCEPT !.op = "normalizeColor", !.arg = colorText,
                              !.outcome = "return",
                              !.value = normalizeColor(colorText)]
    /\ colorText' = normalizeColor(colorText)
    /\ UNCHANGED <<typographyCache, colorCache, styleSignals, tablesUsed>>

\* A caller asks for the format of the string it holds.
GetColorFormat ==
    /\ call' = [NoCall EXCEPT !.op = "getColorFormat", !.arg = colorText,
                              !.outcome = "return",
                              !.value = getColorFormat(colorText)]
    /\ UNCHANGED <<typographyCache, colorCache, colorText, styleSignals,
                   tablesUsed>>

\* A caller validates the string it holds with one of the five validators.
Validated(op, result) ==
    /\ call' = [NoCall EXCEPT !.op = op, !.arg = colorText,
                              !.outcome = "return", !.value = result]
    /\ UNCHANGED <<typographyCache, colorCache, colorText, styleSignals,
                   tablesUsed>>

IsValidHexColor == Validated("isValidHexColor", isValidHexColor(colorText))

IsValidRgbColor == Validated("isValidRgbColor", isValidRgbColor(colorText))

IsValidHslColor == Validated("isValidHslColor", isValidHslColor(colorText))

IsValidNamedColor == Validated("isValidNamedColor", isValidNamedColor(colorText))

IsValidColor == Validated("isValidColor", isValidColor(colorText))

NextValidator ==
    \/ NormalizeColor
    \/ GetColorFormat
    \/ IsValidHexColor
    \/ IsValidRgbColor
    \/ IsValidHslColor
    \/ IsValidNamedColor
    \/ IsValidColor

SpecValidator == InitValidator /\ [][NextValidator]_vars

-----------------------------------------------------------------------------
(* Typography resolver: properties (checked under SpecStyle) *)

StyleReturned == call.op = "getTextStyle" /\ call.outcome = "return"

\* C1 as stated: for each of the 15 variants v that the table defines,
\* getTextStyle(v, tokens) returns tokens.typography[v] of the table of that
\* call, whatever calls were made before.
C1_ReturnsEntryOfThisTable ==
    (/\ StyleReturned
     /\ call.arg \in TEXT_STYLE_VARIANT_SET
     /\ call.arg \in DOMAIN call.tokens.typography)
    => call.value = call.tokens.typography[call.arg]

\* C1 amended: a call whose cache key is not cached yet returns the entry
\* tokens.typography[v] of its own table, a TextStyle; a call whose key is
\* cached returns the entry stored under that key.
C1_ReturnsEntryOnMiss ==
    (/\ StyleReturned
     /\ call.arg \in TEXT_STYLE_VARIANT_SET
     /\ call.arg \in DOMAIN call.tokens.typography)
    => IF call.cached
       THEN call.value =
                typographyCache[TypographyCacheKey(call.arg, call.tokens)]
       ELSE /\ call.value = call.tokens.typography[call.arg]
            /\ IsTextStyle(call.value)

C1_Witness ==
    /\ StyleReturned
    /\ ~call.cached
    /\ call.arg = "headlineMedium"
    /\ call.tokens.typography = HeavyTypography
    /\ call.value = TextStyle(28, "700")

\* C2 as stated: for a variant that is not a key of tokens.typography,
\* getTextStyle returns tokens.typography.bodyLarge of the table of that call.
C2_UnknownReturnsBodyLargeOfThisTable ==
    (/\ StyleReturned
     /\ call.arg \notin DOMAIN call.tokens.typography)
    => call.value = Get(call.tokens.typography, "bodyLarge")

\* C2 amended: when the lookup tokens.typography[variant] finds nothing (the
\* variant is neither a key of the table nor a name inherited from
\* Object.prototype) and the call's cache key is not cached yet, getTextStyle
\* returns tokens.typography.bodyLarge of the table of that call.
C2_UnknownReturnsBodyLargeOnMiss ==
    (/\ StyleReturned
     /\ Get(call.tokens.typography, call.arg) = UNDEFINED
     /\ ~call.cached)
    => call.value = Get(call.tokens.typography, "bodyLarge")

C2_Witness ==
    /\ StyleReturned
    /\ ~call.cached
    /\ call.arg = "unknownVariant"
    /\ call.tokens.typography = HeavyTypography
    /\ call.value = TextStyle(16, "700")

\* C8 as stated: every getTextStyle call either throws the configuration
\* error or returns a record with a numeric fontSize and a string fontWeight,
\* never undefined.
C8_ThrowsOrReturnsTextStyle ==
    call.op = "getTextStyle"
    => \/ call.outcome = "throw" /\ call.value = TypographyError
       \/ call.outcome = "return" /\ IsTextStyle(call.value)

-----------------------------------------------------------------------------
(* Colour resolver: properties (checked under SpecColor) *)

ColorReturned == call.op = "getTextColor" /\ call.outcome = "return"

ValidColorTokens(tokens) == ~Falsy(tokens) /\ ~Falsy(Get(tokens, "colors"))

\* The static table of the specification: the 17 canonical variants name
\* their own token field, the legacy aliases the field of their modern name.
StaticTableField(variant) ==
    CASE variant = "primary"        -> "textPrimary"
      [] variant = "secondary"      -> "textSecondary"
      [] variant = "surfaceVariant" -> "textSecondary"
      [] variant = "tertiary"       -> "textTertiary"
      [] variant = "disabled"       -> "textDisabled"
      [] variant = "inverse"        -> "textInverse"
      [] OTHER                      -> variant

\* C3 as stated: for each of the 23 ColorVariant values, getTextColor returns
\* the token field the static table gives, read from the table of that call.
C3_ReturnsStaticTableField ==
    (ColorReturned /\ call.arg \in COLOR_VARIANT_SET)
    => call.value = ColorField(call.tokens, StaticTableField(call.arg))

\* C3 amended: a getTextColor call with one of the 23 variants whose cache key
\* is not cached yet returns the token field the static table gives, read
\* from the table of that call (so a legacy alias returns the text* field and
\* not the token of its own name); a call whose key is cached returns the
\* string stored under that key.
C3_ReturnsStaticTableFieldOnMiss ==
    (ColorReturned /\ call.arg \in COLOR_VARIANT_SET)
    => IF call.cached
       THEN call.value = colorCache[ColorCacheKey(call.arg, call.tokens)]
       ELSE call.value = ColorField(call.tokens, StaticTableField(call.arg))

C3_Witness ==
    /\ ColorReturned
    /\ ~call.cached
    /\ call.arg = "surfaceVariant"
    /\ call.tokens.colors = AltColors
    /\ call.value = AltColors.textSecondary
    /\ call.value # AltColors.surfaceVariant

\* C4 as stated: at any point of any sequence of getTextColor calls, and for
\* any token table, getTextColor("surfaceVariant", tokens) returns the same
\* string as getTextColor("textSecondary", tokens).
C4_LegacyAliasLaw ==
    \A tokens \in ColorTokenInputs :
        ValidColorTokens(tokens)
        => getTextColor(colorCache, "surfaceVariant", tokens).value
             = getTextColor(colorCache, "textSecondary", tokens).value

\* C4 amended: at any point where the colour cache holds no entry under the
\* key of either call (in particular right after clearColorCache),
\* getTextColor("surfaceVariant", tokens) and getTextColor("textSecondary",
\* tokens) return the same string, tokens.colors.textSecondary.
C4_LegacyAliasLawOnMiss ==
    \A tokens \in ColorTokenInputs :
        (/\ ValidColorTokens(tokens)
         /\ ColorCacheKey("surfaceVariant", tokens) \notin DOMAIN colorCache
         /\ ColorCacheKey("textSecondary", tokens) \notin DOMAIN colorCache)
        => /\ getTextColor(colorCache, "surfaceVariant", tokens).value
                = getTextColor(colorCache, "textSecondary", tokens).value
           /\ getTextColor(colorCache, "surfaceVariant", tokens).value
                = ColorField(tokens, "textSecondary")

C4_Witness ==
    /\ ColorReturned
    /\ call.arg = "onError"
    /\ colorCache # EmptyMap
    /\ ColorCacheKey("surfaceVariant", call.tokens) \notin DOMAIN colorCache
    /\ ColorCacheKey("textSecondary", call.tokens) \notin DOMAIN colorCache

\* C5: when color is undefined or '' and tokens.colors exists, getTextColor
\* returns tokens.colors.textPrimary of the table of that call, in every cache
\* state, and leaves the colour cache unchanged.
C5_EmptyColorIsTextPrimary ==
    [][(/\ call'.op = "getTextColor"
        /\ call'.arg \in {UndefinedString, ""}
        /\ ValidColorTokens(call'.tokens))
       => /\ call'.outcome = "return"
          /\ call'.value = ColorField(call'.tokens, "textPrimary")
          /\ colorCache' = colorCache]_vars

C5_Witness ==
    /\ ColorReturned
    /\ call.arg = UndefinedString
    /\ call.tokens.colors = AltColors
    /\ call.value = AltColors.textPrimary
    /\ colorCache # EmptyMap

\* C6: for every non-empty string that is not one of the 23 ColorVariant
\* values, getTextColor returns that string unchanged, whatever tokens.colors
\* and the cache hold, and leaves the colour cache unchanged.
C6_PassThrough ==
    [][(/\ call'.op = "getTextColor"
        /\ call'.arg \notin COLOR_VARIANT_SET \cup {UndefinedString, ""}
        /\ ValidColorTokens(call'.tokens))
       => /\ call'.outcome = "return"
          /\ call'.value = call'.arg
          /\ colorCache' = colorCache]_vars

C6_Witness ==
    /\ ColorReturned
    /\ call.arg = "background"
    /\ call.value = "background"
    /\ call.tokens.colors = DefaultColors
    /\ colorCache # EmptyMap

-----------------------------------------------------------------------------
(* Both resolvers: properties (checked under Spec) *)

\* C7: getTextStyle throws the fixed typography message when tokens or
\* tokens.typography is null/undefined, getTextColor the fixed colours message
\* when tokens or tokens.colors is null/undefined, for every variant or color
\* argument; a call that throws returns no value and changes neither cache.
C7_InvalidTokensThrow ==
    [][/\ (/\ call'.op = "getTextStyle"
           /\ (Falsy(call'.tokens) \/ Falsy(Get(call'.tokens, "typography"))))
          => /\ call'.outcome = "throw"
             /\ call'.value = TypographyError
             /\ UNCHANGED <<typographyCache, colorCache>>
       /\ (/\ call'.op = "getTextColor"
           /\ (Falsy(call'.tokens) \/ Falsy(Get(call'.tokens, "colors"))))
          => /\ call'.outcome = "throw"
             /\ call'.value = ColorsError
             /\ UNCHANGED <<typographyCache, colorCache>>
       /\ call'.outcome = "throw"
          => UNCHANGED <<typographyCache, colorCache>>]_vars

C7_Witness ==
    /\ call.op = "getTextColor"
    /\ call.arg = "#FF5722"
    /\ call.tokens = [typography |-> DefaultTypography]
    /\ call.outcome = "throw"
    /\ call.value = ColorsError
    /\ typographyCache # EmptyMap
    /\ colorCache # EmptyMap

-----------------------------------------------------------------------------
(* Colour strings: properties (checked under SpecValidator) *)

\* C9 as stated: normalizeColor is idempotent, normalizeColor of a result of
\* normalizeColor is that result.
C9_NormalizeIdempotent ==
    call.op = "normalizeColor" => normalizeColor(call.value) = call.value

IsThreeDigitHex(str) ==
    /\ Len(str) = 4
    /\ str[1] = "#"
    /\ \A k \in 2..4 : str[k] \in HexChars

\* C10 as stated: for every 3-digit hex colour #RGB, in either letter case,
\* normalizeColor returns the lower-case 6-digit form with each digit doubled.
C10_HexExpansion ==
    (call.op = "normalizeColor" /\ IsThreeDigitHex(call.arg))
    => call.value =
         <<"#", CharToLowerCase(call.arg[2]), CharToLowerCase(call.arg[2]),
                CharToLowerCase(call.arg[3]), CharToLowerCase(call.arg[3]),
                CharToLowerCase(call.arg[4]), CharToLowerCase(call.arg[4])>>

FormatReturned == call.op = "getColorFormat" /\ call.outcome = "return"

\* C11: getColorFormat(c) is "hex" iff isValidHexColor(c), "rgb" iff
\* isValidRgbColor(c), "hsl" iff isValidHslColor(c), "named" iff
\* isValidNamedColor(c) and "unknown" iff isValidColor(c) is false; no string is
\* accepted by two of the four validators.
C11_FormatIffValidator ==
    FormatReturned
    => /\ (call.value = "hex") <=> isValidHexColor(call.arg)
       /\ (call.value = "rgb") <=> isValidRgbColor(call.arg)
       /\ (call.value = "hsl") <=> isValidHslColor(call.arg)
       /\ (call.value = "named") <=> isValidNamedColor(call.arg)
       /\ (call.value = "unknown") <=> ~isValidColor(call.arg)
       /\ Cardinality({k \in 1..4 :
                          <<isValidHexColor(call.arg), isValidRgbColor(call.arg),
                            isValidHslColor(call.arg),
                            isValidNamedColor(call.arg)>>[k]}) <= 1

C11_Witness ==
    /\ FormatReturned
    /\ call.value = "hsl"
    /\ isValidHslColor(call.arg)
    /\ ~isValidNamedColor(call.arg)

\* The number a channel holds: its digits, without the % sign.
ChannelNumber(channel) ==
    Number(SelectSeq(channel, LAMBDA ch : ch \in Digits))

BareIntegerInputs == {c \in RgbChannelInputs : "%" \notin Range(c)}

PercentInputs == {c \in RgbChannelInputs : "%" \in Range(c)}

RgbReturned == call.op = "isValidRgbColor" /\ call.outcome = "return"

\* C12: for an rgb(...)/rgba(...) string whose three channels are bare
\* integers of 1 to 3 digits, isValidRgbColor is true iff each channel is in
\* 0..255; rgb(255,0,0) is accepted; rgb(256,0,0), a negative channel and a
\* missing channel are rejected.
C12_BareIntegersInRange ==
    RgbReturned
    => /\ \A open \in RgbOpenInputs, alpha \in AlphaInputs :
            \A r \in BareIntegerInputs, g \in BareIntegerInputs,
               b \in BareIntegerInputs :
                call.arg = FunctionText(open, r, g, b, alpha)
                => (call.value <=> /\ ChannelNumber(r) \in 0..255
                                   /\ ChannelNumber(g) \in 0..255
                                   /\ ChannelNumber(b) \in 0..255)
       /\ call.arg = <<"r", "g", "b", "(", "2", "5", "5", ",", "0", ",", "0",
                       ")">> => call.value
       /\ call.arg \in
              {<<"r", "g", "b", "(", "2", "5", "6", ",", "0", ",", "0", ")">>,
               <<"r", "g", "b", "(", "2", "5", "5", ",", " ", "-", "1", ",",
                 " ", "0", ")">>,
               <<"r", "g", "b", "(", "2", "5", "5", ",", " ", "0", ")">>}
          => ~call.value

C12_Witness ==
    /\ RgbReturned
    /\ call.arg = FunctionText(<<"r", "g", "b", "a", "(">>, <<"0">>,
                               <<"2", "5", "5">>, <<"2", "5", "6">>,
                               <<",", " ", "0", ".", "5">>)
    /\ ~call.value

\* C13 as stated: an rgb(...)/rgba(...) string that matches the pattern and
\* whose three channels are percentages of 1 to 3 digits is accepted whatever
\* the numbers are.
C13_PercentExempt ==
    RgbReturned
    => \A open \in RgbOpenInputs, alpha \in AlphaInputs :
           \A r \in PercentInputs, g \in PercentInputs, b \in PercentInputs :
               (/\ call.arg = FunctionText(open, r, g, b, alpha)
                /\ Test(COLOR_PATTERNS_rgb, call.arg))
               => call.value

\* C13 amended: the re-check does not look at the % sign; an rgb(...)/
\* rgba(...) string that matches the pattern is accepted iff the number of each
\* of its three channels, percentage or bare integer, is in 0..255.
C13_PercentRangeChecked ==
    RgbReturned
    => \A open \in RgbOpenInputs, alpha \in AlphaInputs :
           \A r \in RgbChannelInputs, g \in RgbChannelInputs,
              b \in RgbChannelInputs :
               (/\ call.arg = FunctionText(open, r, g, b, alpha)
                /\ Test(COLOR_PATTERNS_rgb, call.arg))
               => (call.value <=> /\ ChannelNumber(r) \in 0..255
                                  /\ ChannelNumber(g) \in 0..255
                                  /\ ChannelNumber(b) \in 0..255)

C13_Witness ==
    /\ RgbReturned
    /\ call.arg = FunctionText(<<"r", "g", "b", "(">>, <<"1", "5", "0", "%">>,
                               <<"5", "0", "%">>, <<"3", "0", "0", "%">>,
                               << >>)
    /\ Test(COLOR_PATTERNS_rgb, call.arg)
    /\ ~call.value

HslReturned == call.op = "isValidHslColor" /\ call.outcome = "return"

\* C14: for an hsl(...)/hsla(...) string that matches the pattern (integer hue
\* of 1 to 3 digits, two percentages, optional alpha), isValidHslColor is true
\* iff hue is in 0..360, saturation in 0..100 and lightness in 0..100;
\* hsl(361,0%,0%) is rejected.
C14_HslInRange ==
    HslReturned
    => /\ \A open \in HslOpenInputs, alpha \in AlphaInputs :
            \A h \in HueInputs, sat \in HslPercentageInputs,
               l \in HslPercentageInputs :
                (/\ call.arg = FunctionText(open, h, sat, l, alpha)
                 /\ Test(COLOR_PATTERNS_hsl, call.arg))
                => (call.value <=> /\ ChannelNumber(h) \in 0..360
                                   /\ ChannelNumber(sat) \in 0..100
                                   /\ ChannelNumber(l) \in 0..100)
       /\ call.arg = <<"h", "s", "l", "(", "3", "6", "1", ",", "0", "%", ",",
                       "0", "%", ")">> => ~call.value

C14_Witness ==
    /\ HslReturned
    /\ call.arg = FunctionText(<<"h", "s", "l", "a", "(">>, <<"3", "6", "0">>,
                               <<"1", "0", "0", "%">>, <<"1", "0", "1", "%">>,
                               <<",", " ", "0", ".", "5">>)
    /\ Test(COLOR_PATTERNS_hsl, call.arg)
    /\ ~call.value

NormalizeReturned == call.op = "normalizeColor" /\ call.outcome = "return"

IsLowerCase(str) == \A k \in DOMAIN str : str[k] \notin Range(UpperCaseLetters)

\* C15: normalizeColor returns its input unchanged when isValidColor is false,
\* and the input lower-cased for every valid colour other than a 3-digit hex;
\* so every valid rgb/rgba and hsl/hsla string and every lower-case 6-digit hex
\* is returned unchanged, and RED becomes red.
C15_UnchangedOrLowerCased ==
    NormalizeReturned
    => /\ ~isValidColor(call.arg) => call.value = call.arg
       /\ (isValidColor(call.arg) /\ ~IsThreeDigitHex(call.arg))
          => call.value = [k \in DOMAIN call.arg |-> CharToLowerCase(call.arg[k])]
       /\ (isValidRgbColor(call.arg) \/ isValidHslColor(call.arg))
          => call.value = call.arg
       /\ (isValidHexColor(call.arg) /\ Len(call.arg) = 7 /\ IsLowerCase(call.arg))
          => call.value = call.arg
       /\ call.arg = <<"R", "E", "D">> => call.value = <<"r", "e", "d">>

C15_Witness ==
    /\ NormalizeReturned
    /\ call.arg = <<"R", "E", "D">>
    /\ call.value = <<"r", "e", "d">>

-----------------------------------------------------------------------------
(* Variant accessors: properties (checked under SpecStyle) *)

Tiers == <<"display", "headline", "title", "body", "label">>

Sizes == <<"Large", "Medium", "Small">>

\* display, headline, title, body, label; Large, Medium, Small in each tier
TierOrder ==
    [k \in 1..(Len(Tiers) * Len(Sizes)) |->
        Tiers[((k - 1) \div Len(Sizes)) + 1] \o Sizes[((k - 1) % Len(Sizes)) + 1]]

\* C16: getAllTextStyleVariants returns the 15 TextStyleVariant values, no
\* duplicates, in tier order (display, headline, title, body, label; Large,
\* Medium, Small within a tier), the same on every call; isTextStyleVariant(s)
\* is true iff s is an element of that list, and false for '', 'display' and
\* 'body'.
C16_VariantListAndMembership ==
    /\ call.op = "getAllTextStyleVariants"
       => /\ call.value = TierOrder
          /\ Len(call.value) = 15
          /\ Cardinality(Range(call.value)) = 15
    /\ call.op = "isTextStyleVariant"
       => /\ call.value <=> (\E k \in 1..15 : TierOrder[k] = call.arg)
          /\ call.arg \in {"", "display", "body"} => ~call.value

C16_Witness ==
    /\ call.op = "isTextStyleVariant"
    /\ call.arg = "labelSmall"
    /\ call.value
    /\ typographyCache # EmptyMap

C16_WitnessList ==
    /\ call.op = "getAllTextStyleVariants"
    /\ call.value[15] = "labelSmall"
    /\ typographyCache # EmptyMap

-----------------------------------------------------------------------------
(* Cache clears: properties (checked under Spec) *)

\* tokens.typography[variant], or bodyLarge when that finds nothing
TypographyLookup(variant, tokens) ==
    IF ~Falsy(Get(tokens.typography, variant))
    THEN Get(tokens.typography, variant)
    ELSE Get(tokens.typography, "bodyLarge")

\* The token objects of this specification that carry a table of the kind.
WithTable(kind) ==
    {tokens \in SharedTokenInputs :
        ~Falsy(tokens) /\ ~Falsy(Get(tokens, kind))}

\* C17: after clearTypographyCache the typography cache is empty, after
\* clearColorCache the colour cache is empty, whatever they held and whether
\* or not they were empty already; a clear of an empty cache changes neither
\* cache; and the next getTextStyle or getTextColor call of a variant returns
\* the value looked up in the table passed to that call, whatever tables were
\* used before the clear.
C17_ClearEmptiesAndNextCallIsFresh ==
    /\ [](call.op = "clearTypographyCache"
             => /\ typographyCache = EmptyMap
                /\ \A variant \in SharedStyleInputs,
                      tokens \in WithTable("typography") :
                       LET r == getTextStyle(typographyCache, variant, tokens)
                       IN  /\ r.outcome = "return"
                           /\ ~r.cached
                           /\ r.value = TypographyLookup(variant, tokens))
    /\ [](call.op = "clearColorCache"
             => /\ colorCache = EmptyMap
                /\ \A color \in SharedColorInputs \cap COLOR_VARIANT_SET,
                      tokens \in WithTable("colors") :
                       LET r == getTextColor(colorCache, color, tokens)
                       IN  /\ r.outcome = "return"
                           /\ ~r.cached
                           /\ r.value =
                                  ColorField(tokens, StaticTableField(color)))
    /\ [][(\/ call'.op = "clearTypographyCache" /\ typographyCache = EmptyMap
           \/ call'.op = "clearColorCache" /\ colorCache = EmptyMap)
           => UNCHANGED <<typographyCache, colorCache, colorText>>]_vars

C17_Witness ==
    /\ call.op = "clearTypographyCache"
    /\ typographyCache = EmptyMap
    /\ colorCache # EmptyMap
    /\ \E key \in DOMAIN colorCache : colorCache[key] = AltColors.textSecondary

-----------------------------------------------------------------------------
(* Staleness of the typography cache: properties (checked under Spec) *)

Effective(signals) ==
    <<signals[1], signals[2],
      IF signals[3] = UNDEFINED THEN 16
      ELSE IF signals[3].number = 0 THEN 16
      ELSE signals[3].number>>

-----------------------------------------------------------------------------
(* Independence of the two caches: properties (checked under Spec) *)

\* C19: getTextStyle and clearTypographyCache leave the colour cache as it is,
\* getTextColor and clearColorCache leave the typography cache as it is, and
\* what the other resolver returns for any argument is the same before and
\* after a clear.
C19_CachesIndependent ==
    [][/\ call'.op \in {"getTextStyle", "clearTypographyCache"}
          => colorCache' = colorCache
       /\ call'.op \in {"getTextColor", "clearColorCache"}
          => typographyCache' = typographyCache
       /\ call'.op = "clearTypographyCache"
          => \A color \in SharedColorInputs, tokens \in SharedTokenInputs :
                 getTextColor(colorCache', color, tokens)
                   = getTextColor(colorCache, color, tokens)
       /\ call'.op = "clearColorCache"
          => \A variant \in SharedStyleInputs, tokens \in SharedTokenInputs :
                 getTextStyle(typographyCache', variant, tokens)
                   = getTextStyle(typographyCache, variant, tokens)]_vars

C19_Witness ==
    /\ call.op = "clearColorCache"
    /\ colorCache = EmptyMap
    /\ \E key \in DOMAIN typographyCache :
           typographyCache[key] = HeavyTypography.bodyLarge

-----------------------------------------------------------------------------
(* The caller's token table: properties (checked under Spec) *)

\* C20: after every getTextStyle and getTextColor call, one that throws
\* included, the tokens object the caller passed, with its colors and its
\* typography, is as it was before the call; the cache clears take no tokens.
C20_TokensNotModified ==
    /\ call.op \in {"getTextStyle", "getTextColor"}
       => /\ call.tokensAfter = call.tokens
          /\ Get(call.tokensAfter, "colors") = Get(call.tokens, "colors")
          /\ Get(call.tokensAfter, "typography")
               = Get(call.tokens, "typography")
    /\ call.op \in {"clearTypographyCache", "clearColorCache"}
       => call.tokens = NULL /\ call.tokensAfter = NULL

C20_Witness ==
    /\ call.op = "getTextStyle"
    /\ call.arg = "unknownVariant"
    /\ call.outcome = "return"
    /\ call.value = DefaultTypography.bodyLarge
    /\ call.tokens = Tokens(DefaultColors, DefaultTypography)
    /\ call.tokensAfter = Tokens(DefaultColors, DefaultTypography)

C20_WitnessThrow ==
    /\ call.op = "getTextColor"
    /\ call.outcome = "throw"
    /\ call.tokens = [typography |-> DefaultTypography]
    /\ call.tokensAfter = call.tokens

-----------------------------------------------------------------------------
\* Memoization under a fixed token table (SpecMemo).

\* Every call since the last clear of the cache was made with the table of
\* the call just made.
OnlyTypographyTable == tablesUsed.typography = {call.tokens.typography}

OnlyColorTable == tablesUsed.colors = {call.tokens.colors}

C21_WitnessStyle ==
    /\ StyleReturned /\ call.cached /\ OnlyTypographyTable
    /\ call.arg = "unknownVariant"
    /\ call.value = call.tokens.typography.bodyLarge

-----------------------------------------------------------------------------
\* Who writes a cache entry, with callers interleaved call by call (SpecMemo).

\* Every entry of the cache before the step is in the cache after it, with
\* the value it had.
EntriesKept(before, after) ==
    \A key \in DOMAIN before : key \in DOMAIN after /\ after[key] = before[key]

\* What a resolver call whose key is cacheKey may do to its cache: on a hit
\* return the stored value and leave the cache alone, on a miss add the one
\* entry cacheKey -> returned value.
HitOrFirstWrite(before, after, cacheKey, made) ==
    IF cacheKey \in DOMAIN before
    THEN made.cached /\ made.value = before[cacheKey] /\ after = before
    ELSE ~made.cached /\ after = before @@ (cacheKey :> made.value)

-----------------------------------------------------------------------------
\* The default branch of the colour mapper (SpecColor).

\* The last call was a getTextColor call that ran the mapper: it returned,
\* not from the cache, for a non-empty string that isColorVariant accepts.
MapperRan ==
    /\ ColorReturned /\ ~call.cached
    /\ call.arg \notin {UndefinedString, ""}
    /\ isColorVariant(call.arg)

\* The lines the mapper gave console.warn in the last call, in a build with
\* the given NODE_ENV.
Warned(production) ==
    IF MapperRan
    THEN MaterialColorMapper_getColor_warnings(call.arg, production)
    ELSE {}

\* C23: every string isColorVariant accepts has a case of its own in
\* MaterialColorMapper.getColor, so getTextColor never takes the mapper into
\* its default branch: every call that runs the mapper runs it on a case
\* label and returns the field of that case, every cache entry was made for a
\* case label, and console.warn is given no line, whatever NODE_ENV is.
C23_DefaultBranchUnreached ==
    /\ \A production \in BOOLEAN : Warned(production) = {}
    /\ MapperRan
          => /\ call.arg \in MaterialColorMapper_cases
             /\ call.value =
                    ColorField(call.tokens, StaticTableField(call.arg))
    /\ \A cacheKey \in DOMAIN colorCache :
           cacheKey[1] \in MaterialColorMapper_cases

\* The mapper ran on the alias surfaceVariant and returned textSecondary;
\* the set has 23 members, each of them a case label.
C23_Witness ==
    /\ MapperRan
    /\ call.arg = "surfaceVariant"
    /\ call.value = call.tokens.colors.textSecondary
    /\ Cardinality(COLOR_VARIANT_SET) = 23
    /\ COLOR_VARIANT_SET \subseteq MaterialColorMapper_cases

-----------------------------------------------------------------------------
\* Tables whose typography cache keys agree through the substituted 16
\* (SpecMemo).

\* A table with bodyLarge.fontSize = 16.
BodyLargeIs16(table) ==
    "bodyLarge" \in DOMAIN table /\ table.bodyLarge.fontSize = 16

\* A table with no bodyLarge entry, or with bodyLarge.fontSize = 0.
BodyLargeMissingOrZero(table) ==
    "bodyLarge" \notin DOMAIN table \/ table.bodyLarge.fontSize = 0

\* C24: for tables A and B with the same number of entries, A with
\* bodyLarge.fontSize = 16 and B with no bodyLarge or bodyLarge.fontSize = 0,
\* the cache keys of every variant agree, and from any state of the cache
\* getTextStyle(v, A) followed by getTextStyle(v, B), with no clear between,
\* has the second call served from the cache with the value the first call
\* returned, which on a miss of the first call is A's entry.
C24_SixteenSharesKeys ==
    \A variant \in MemoStyleInputs, A, B \in MemoTypographyTables :
        (/\ KeyCount(A) = KeyCount(B)
         /\ BodyLargeIs16(A) /\ BodyLargeMissingOrZero(B))
        => LET tokensA == [typography |-> A]
               tokensB == [typography |-> B]
               first == getTextStyle(typographyCache, variant, tokensA)
               second == getTextStyle(first.cache, variant, tokensB)
           IN  /\ TypographyCacheKey(variant, tokensA) =
                      TypographyCacheKey(variant, tokensB)
               /\ second.outcome = "return" /\ second.cached
               /\ second.value = first.value
               /\ second.cache = first.cache
               /\ ~first.cached
                     => first.value = TypographyLookup(variant, tokensA)

\* getTextStyle("bodyLarge", B) for the table B without bodyLarge, after a
\* call with the table A whose bodyLarge.fontSize is 16 and no other: B
\* would resolve to undefined, and the call returns A's cached bodyLarge.
C24_Witness ==
    /\ StyleReturned /\ call.cached
    /\ call.arg = "bodyLarge"
    /\ call.tokens.typography = NoBodyLargeTypography
    /\ tablesUsed.typography = {DefaultTypography, NoBodyLargeTypography}
    /\ TypographyLookup(call.arg, call.tokens) = UNDEFINED
    /\ call.value = DefaultTypography.bodyLarge

\* The same with the table whose bodyLarge.fontSize is 0.
C24_WitnessZero ==
    /\ StyleReturned /\ call.cached
    /\ call.arg = "bodyLarge"
    /\ call.tokens.typography = ZeroBodyTypography
    /\ tablesUsed.typography = {DefaultTypography, ZeroBodyTypography}
    /\ call.value = DefaultTypography.bodyLarge
    /\ call.value # ZeroBodyTypography.bodyLarge

====
